---------------------------- MODULE Spec2Model ----------------------------
(***************************************************************************)
(* godot-articy-rs: the Godot binding (src/lib.rs) around the articy       *)
(* dialogue interpreter.  The binding's Database and Interpreter nodes,    *)
(* their methods and the signals they emit are modelled from src/lib.rs.  *)
(* The wrapped articy::Interpreter (start / advance / choose /            *)
(* exhaust_maximally / get_state / set_state) lives in the articy crate,  *)
(* whose code is not part of the source tree; its behaviour is modelled   *)
(* from the specification (sections 4.2 - 4.4) and is marked as such.     *)
(***************************************************************************)
EXTENDS Integers, Sequences, FiniteSets, TLC

VARIABLES
    file,          \* Database.file: 0 = None, otherwise the loaded project
    interpreter,   \* Interpreter.interpreter: NoInterpreter or the articy interpreter
    op,            \* the method called last, with its arguments
    result,        \* how that call ended: "ok", "logged" (godot_error!) or "panic"
    error,         \* the error of that call, "" if none
    events,        \* the signals emitted during that call, in order
    ret,           \* the value that call returned (get_state), Nil otherwise
    pre,           \* the called node's interpreter as it was when that call began
    other          \* Interpreter.interpreter of a second Interpreter node

vars == <<file, interpreter, op, result, error, events, ret, pre, other>>

---------------------------------------------------------------------------
(* Bounds of the model.                                                    *)

\* Integers of state values and script literals range over 0 .. MaxInt.
MaxInt == 2
\* Silent graph steps one advance may take before the walk is cut off.
MaxWalk == 8
\* The step bound of exhaust_maximally (10_000 by default in the spec).
MaxExhaust == 4

---------------------------------------------------------------------------
(* StateValue (articy) and Variant (Godot), as the binding converts them.  *)

Empty == [t |-> "Empty", v |-> 0]
IntV(n) == [t |-> "Int", v |-> n]
BoolV(b) == [t |-> "Boolean", v |-> IF b THEN 1 ELSE 0]
\* Floats and strings are told apart by a number standing for their content.
FloatV(n) == [t |-> "Float", v |-> n]
StringV(n) == [t |-> "String", v |-> n]

StateValues ==
    {Empty} \cup {IntV(n) : n \in 0..MaxInt} \cup {BoolV(TRUE), BoolV(FALSE)}
    \cup {FloatV(n) : n \in 0..1} \cup {StringV(n) : n \in 0..1}

Nil == [t |-> "Nil", v |-> 0]
\* The Variants a caller passes to set_state; Vector2 stands for the
\* unsupported kinds of the last match arm.
Variants == {Nil, [t |-> "Vector2", v |-> 0]}
            \cup {[t |-> "I64", v |-> n] : n \in 0..MaxInt}
\* Every kind of Variant the match of set_state tells apart.
AllVariants ==
    Variants
    \cup {[t |-> "Bool", v |-> b] : b \in 0..1}
    \cup {[t |-> "F64", v |-> n] : n \in 0..1}
    \cup {[t |-> "GodotString", v |-> n] : n \in 0..1}
    \cup {[t |-> "NodePath", v |-> n] : n \in 0..1}

Keys == {"x", "n"}

---------------------------------------------------------------------------
(* The project files: models, pins and connections.                        *)

\* A connection leaving an output pin: the pin's guard and the target model.
Conn(g, to) == [guard |-> g, to |-> to]
GTrue == [op |-> "true", k |-> "x", v |-> Empty]
GEq(k, val) == [op |-> "eq", k |-> k, v |-> val]
GDiv0 == [op |-> "div0", k |-> "x", v |-> Empty]

\* Statements of an Instruction.
SSet(k, val) == [op |-> "set", k |-> k, v |-> val, from |-> k]
SCopy(k, from) == [op |-> "copy", k |-> k, v |-> Empty, from |-> from]
SInc(k) == [op |-> "inc", k |-> k, v |-> Empty, from |-> k]

Node(kind, text, menu, expr, stmts, target, outs) ==
    [kind |-> kind, text |-> text, menu_text |-> menu, expr |-> expr,
     stmts |-> stmts, target |-> target, outs |-> outs]

DF(text, menu, outs) == Node("DialogueFragment", text, menu, GTrue, <<>>, "", outs)
Hub(outs) == Node("Hub", "", "", GTrue, <<>>, "", outs)
Dialogue(outs) == Node("Dialogue", "", "", GTrue, <<>>, "", outs)
Jump(target) == Node("Jump", "", "", GTrue, <<>>, target, <<>>)
Condition(expr, outs) == Node("Condition", "", "", expr, <<>>, "", outs)
Instruction(stmts, outs) == Node("Instruction", "", "", GTrue, stmts, "", outs)
Custom(outs) == Node("Custom", "", "", GTrue, <<>>, "", outs)
UserFolder == Node("UserFolder", "", "", GTrue, <<>>, "", <<>>)

\* File 1: a dialogue with a hub of choices, a jump, instructions, conditions.
\*   D -> H;  H offers A, B and (when x = 1) the custom model K
\*   A -> J (jump to I1);  K -> I1;  B has no output
\*   I1 [x = 1; n = x; x = 2] -> I2 [n += 1] -> C
\*   C (n == 2) ? E : (pin guarded by x == 2) Z
\*   E (empty text) -> F;  F -> G when n = 2
\*   G (x == 0) ? (pin guarded by n == 1) Q : (pin guarded by n == 0) H
\*   Z -> Q
\*   Q: a condition that divides by zero (EvalError)
\*   U: a folder of the hierarchy, on no path
Models1 ==
    [id \in {"D", "H", "A", "B", "K", "J", "I1", "I2", "C", "E", "F", "Z", "Q", "G",
              "U"} |->
        CASE id = "D" -> Dialogue(<<Conn(GTrue, "H")>>)
          [] id = "U" -> UserFolder
          [] id = "H" -> Hub(<<Conn(GTrue, "A"), Conn(GTrue, "B"),
                               Conn(GEq("x", IntV(1)), "K")>>)
          [] id = "A" -> DF("yes", "", <<Conn(GTrue, "J")>>)
          [] id = "B" -> DF("no", "nope", <<>>)
          [] id = "K" -> Custom(<<Conn(GTrue, "I1")>>)
          [] id = "J" -> Jump("I1")
          [] id = "I1" -> Instruction(<<SSet("x", IntV(1)), SCopy("n", "x"),
                                        SSet("x", IntV(2))>>,
                                      <<Conn(GTrue, "I2")>>)
          [] id = "I2" -> Instruction(<<SInc("n")>>, <<Conn(GTrue, "C")>>)
          [] id = "C" -> Condition(GEq("n", IntV(2)),
                                   <<Conn(GTrue, "E"), Conn(GEq("x", IntV(2)), "Z")>>)
          [] id = "E" -> DF("", "", <<Conn(GTrue, "F")>>)
          [] id = "F" -> DF("done", "", <<Conn(GEq("n", IntV(2)), "G")>>)
          [] id = "G" -> Condition(GEq("x", IntV(0)),
                                   <<Conn(GEq("n", IntV(1)), "Q"),
                                     Conn(GEq("n", IntV(0)), "H")>>)
          [] id = "Z" -> DF("no", "", <<Conn(GTrue, "Q")>>)
          [] id = "Q" -> Condition(GDiv0, <<Conn(GTrue, "A"), Conn(GTrue, "B")>>)]

\* File 2: the linear scenario, the jump scenario, a chain of fragments
\* with empty text and a cycle of them.
\*   h -> w -> End;   a -> j (jump to c);  c -> End
\*   e1 (empty) -> e2 (empty) -> f ("done") -> w
\*   r1 (empty) -> r2 (empty) -> r1
Models2 ==
    [id \in {"h", "w", "a", "j", "c", "e1", "e2", "f", "r1", "r2"} |->
        CASE id = "h" -> DF("Hello", "", <<Conn(GTrue, "w")>>)
          [] id = "e1" -> DF("", "", <<Conn(GTrue, "e2")>>)
          [] id = "e2" -> DF("", "", <<Conn(GTrue, "f")>>)
          [] id = "f" -> DF("done", "", <<Conn(GTrue, "w")>>)
          [] id = "r1" -> DF("", "", <<Conn(GTrue, "r2")>>)
          [] id = "r2" -> DF("", "", <<Conn(GTrue, "r1")>>)
          [] id = "w" -> DF("World", "", <<>>)
          [] id = "a" -> DF("A", "", <<Conn(GTrue, "j")>>)
          [] id = "j" -> Jump("c")
          [] id = "c" -> DF("C", "", <<>>)]

Files == {1, 2}
Models(f) == IF f = 1 THEN Models1 ELSE Models2

\* The models of the default package in the order of the document.
ModelOrder(f) ==
    IF f = 1 THEN <<"D", "U", "H", "A", "B", "K", "J", "I1", "I2", "C", "E", "F", "G",
                    "Z", "Q">>
    ELSE <<"h", "w", "a", "j", "c", "e1", "e2", "f", "r1", "r2">>

\* The external id of a model; most models have none (the empty string).
ExternalId(f, id) ==
    CASE f = 1 /\ id = "A" -> "ext-a"
      [] f = 1 /\ id = "B" -> "ext-b"
      [] f = 2 /\ id = "w" -> "ext-w"
      [] OTHER -> ""
ExternalIds == {"", "ext-a", "ext-b", "ext-w", "ext-none"}

\* The hierarchy: the children of a folder, in authored order.
HierarchyChildren(f, id) == IF f = 1 /\ id = "U" THEN <<"K", "A">> ELSE <<>>
ModelIds(f) == DOMAIN Models(f)
\* The ids a caller may pass: every model id of either file and an unknown one.
AllIds == ModelIds(1) \cup ModelIds(2) \cup {"zz"}


---------------------------------------------------------------------------
(* The expression engine of the articy crate (specification 4.2).          *)

\* evaluate_predicate: the truth of a guard or condition, or an EvalError.
EvalPredicate(e, st) ==
    CASE e.op = "true" -> [ok |-> TRUE, val |-> TRUE]
      [] e.op = "eq" -> [ok |-> TRUE, val |-> st[e.k] = e.v]
      [] OTHER -> [ok |-> FALSE, val |-> FALSE]

\* One assignment statement.  Arithmetic on a value that is not an Int is a
\* type mismatch (EvalError).
ExecStatement(s, st) ==
    CASE s.op = "set" -> [ok |-> TRUE, st |-> [st EXCEPT ![s.k] = s.v]]
      [] s.op = "copy" -> [ok |-> TRUE, st |-> [st EXCEPT ![s.k] = st[s.from]]]
      [] OTHER ->
           IF st[s.k].t = "Int"
           THEN [ok |-> TRUE,
                 st |-> [st EXCEPT ![s.k] = IntV((st[s.k].v + 1) % (MaxInt + 1))]]
           ELSE [ok |-> FALSE, st |-> st]

\* Mutant of ExecInstructions: the statements in reverse order.
RECURSIVE ExecInstructions_Reversed(_, _)
ExecInstructions_Reversed(stmts, st) ==
    IF stmts = <<>> THEN [ok |-> TRUE, st |-> st]
    ELSE LET r == ExecStatement(stmts[Len(stmts)], st)
         IN  IF r.ok THEN ExecInstructions_Reversed(SubSeq(stmts, 1, Len(stmts) - 1), r.st)
             ELSE r

\* execute_instructions: the statements in authored order, stopping at the
\* first that fails.
RECURSIVE ExecInstructions(_, _)
ExecInstructions(stmts, st) ==
    IF stmts = <<>> THEN [ok |-> TRUE, st |-> st]
    ELSE LET r == ExecStatement(Head(stmts), st)
         IN  IF r.ok THEN ExecInstructions(Tail(stmts), r.st) ELSE r

---------------------------------------------------------------------------
(* The graph walker of the articy crate (specification 4.3).               *)

StepResult(out, model, choices, cursor, st) ==
    [out |-> out, model |-> model, choices |-> choices, cursor |-> cursor, st |-> st]

GuardFails(outs, st) == \E i \in 1..Len(outs) : ~EvalPredicate(outs[i].guard, st).ok

\* Mutant of IsOpen: the guard is not looked at.
IsOpen_Always(c, st) == TRUE

IsOpen(c, st) == EvalPredicate(c.guard, st).val
\* The open connections, in the authored order of the pin's connection list.
OpenConns(outs, st) == SelectSeq(outs, LAMBDA c : IsOpen(c, st))

Targets(conns) == [i \in 1..Len(conns) |-> conns[i].to]

\* Mutant of Observable: a Jump is reported like a Custom model.
Observable_WithJump(kind) == kind \in {"DialogueFragment", "Custom", "Entity", "Jump"}

\* The kinds a walk stops at and reports.
Observable(kind) == kind \in {"DialogueFragment", "Custom", "Entity"}

RECURSIVE Leave(_, _, _, _)
RECURSIVE Arrive(_, _, _, _)
\* The open connections `open` of model n: none ends the dialogue, one is
\* taken, two or more make n a choice point.
FollowOpen(f, n, open, st, fuel) ==
    CASE Len(open) = 0 -> StepResult("EndOfDialogue", n, <<>>, n, st)
      [] Len(open) = 1 -> Arrive(f, open[1].to, st, fuel)
      [] OTHER -> StepResult("WaitingForChoice", n, Targets(open), n, st)

\* Follow the connections `outs` of model n, closed connections skipped.
Follow(f, n, outs, st, fuel) ==
    IF GuardFails(outs, st) THEN StepResult("EvalError", n, <<>>, n, st)
    ELSE FollowOpen(f, n, OpenConns(outs, st), st, fuel)

\* The connections a model of record m is left by in state st, and the state
\* it is left in: an Instruction executes its statements first, a Condition
\* takes its true (first) or false (second) pin.
Exit(m, st) ==
    CASE m.kind = "Instruction" ->
           [ok |-> ExecInstructions(m.stmts, st).ok, outs |-> m.outs,
            st |-> ExecInstructions(m.stmts, st).st]
      [] m.kind = "Condition" ->
           [ok |-> EvalPredicate(m.expr, st).ok,
            outs |-> <<m.outs[IF EvalPredicate(m.expr, st).val THEN 1 ELSE 2]>>,
            st |-> st]
      [] OTHER -> [ok |-> TRUE, outs |-> m.outs, st |-> st]

LeaveBy(f, n, m, x, st, fuel) ==
    IF fuel = 0 THEN StepResult("Stuck", n, <<>>, n, st)
    ELSE IF m.kind = "Jump" THEN Arrive(f, m.target, st, fuel - 1)
    ELSE IF ~x.ok THEN StepResult("EvalError", n, <<>>, n, x.st)
    ELSE Follow(f, n, x.outs, x.st, fuel - 1)

\* Step out of model n: a Jump teleports, an Instruction executes and falls
\* through, a Condition evaluates and branches, every other kind follows its
\* open outputs.
Leave(f, n, st, fuel) == LeaveBy(f, n, Models(f)[n], Exit(Models(f)[n], st), st, fuel)

\* Step into model t: an observable model is reported and becomes current,
\* every other kind is passed through silently.
Arrive(f, t, st, fuel) ==
    IF Observable(Models(f)[t].kind) THEN StepResult("Advanced", t, <<>>, t, st)
    ELSE Leave(f, t, st, fuel)

---------------------------------------------------------------------------
(* articy::Interpreter (specification 4.4).                                *)

NoCursor == ""
EmptyState == [k \in Keys |-> Empty]

NewInterpreter(f) ==
    [file |-> f, cursor |-> NoCursor, pending |-> <<>>, stopped |-> "None",
     state |-> EmptyState]

\* What an operation of the articy interpreter gives back: the interpreter
\* after the call and either an error or an Outcome.
Ok(it, out, model, choices) ==
    [it |-> it, err |-> "", out |-> out, model |-> model, choices |-> choices]
Err(it, e) == [it |-> it, err |-> e, out |-> "", model |-> "", choices |-> <<>>]

InSeq(x, s) == \E i \in 1..Len(s) : s[i] = x

ArticyStart(it, id) ==
    IF id \notin ModelIds(it.file) THEN Err(it, "NotFound")
    ELSE Ok([it EXCEPT !.cursor = id, !.pending = <<>>, !.stopped = "None"],
            "Started", id, <<>>)

\* The interpreter after a walk that ended with step result r.
Walked(it, r) ==
    CASE r.out = "Advanced" ->
           Ok([it EXCEPT !.cursor = r.model, !.state = r.st], "Advanced", r.model, <<>>)
      [] r.out = "WaitingForChoice" ->
           Ok([it EXCEPT !.cursor = r.cursor, !.state = r.st, !.pending = r.choices],
              "WaitingForChoice", "", r.choices)
      [] r.out = "EndOfDialogue" ->
           Ok([it EXCEPT !.state = r.st, !.stopped = "EndOfDialogue"],
              "EndOfDialogue", "", <<>>)
      [] OTHER -> Err([it EXCEPT !.state = r.st], r.out)

ArticyAdvance(it) ==
    IF it.pending /= <<>> THEN Err(it, "AwaitingChoice")
    ELSE IF it.cursor = NoCursor THEN Err(it, "NotStarted")
    ELSE IF it.stopped /= "None" THEN Ok(it, it.stopped, "", <<>>)
    ELSE Walked(it, Leave(it.file, it.cursor, it.state, MaxWalk))

ArticyChoose(it, id) ==
    IF it.pending = <<>> \/ ~InSeq(id, it.pending) THEN Err(it, "InvalidChoice")
    ELSE Ok([it EXCEPT !.cursor = id, !.pending = <<>>], "Advanced", id, <<>>)

\* A DialogueFragment exhaust_maximally passes over: its text is empty, or it
\* has outgoing connections and the guards of all of them fail.
Skippable(f, id, st) ==
    LET m == Models(f)[id]
    IN  /\ m.kind = "DialogueFragment"
        /\ \/ m.text = ""
           \/ /\ m.outs /= <<>>
              /\ ~GuardFails(m.outs, st)
              /\ OpenConns(m.outs, st) = <<>>

RECURSIVE Exhaust(_, _)
\* After the silent advance r: go on if it reached a skippable fragment.
ExhaustStep(f, r, steps) ==
    IF r.err = "" /\ r.out = "Advanced" /\ Skippable(f, r.model, r.it.state)
    THEN Exhaust(r.it, steps - 1)
    ELSE r

Exhaust(it, steps) ==
    IF steps = 0 THEN Err(it, "Runaway")
    ELSE ExhaustStep(it.file, ArticyAdvance(it), steps)

ArticyExhaustMaximally(it) == Exhaust(it, MaxExhaust)

\* Writing Empty removes the key; reading a missing key yields Empty.
ArticySetState(it, k, v) == Ok([it EXCEPT !.state[k] = v], "", "", <<>>)
ArticyGetState(it, k) == it.state[k]

---------------------------------------------------------------------------
(* The binding: conversions and signals (src/lib.rs).                      *)

NoInterpreter == [file |-> 0, cursor |-> NoCursor, pending |-> <<>>,
                  stopped |-> "None", state |-> EmptyState]

\* Mutant of VariantToState: a Bool is stored as the Int 0 or 1.
VariantToState_BoolAsInt(v) ==
    CASE v.t = "Nil" -> [ok |-> TRUE, val |-> Empty]
      [] v.t = "Bool" -> [ok |-> TRUE, val |-> IntV(v.v)]
      [] v.t = "I64" -> [ok |-> TRUE, val |-> IntV(v.v)]
      [] v.t = "F64" -> [ok |-> TRUE, val |-> FloatV(v.v)]
      [] v.t = "GodotString" -> [ok |-> TRUE, val |-> StringV(v.v)]
      [] v.t = "NodePath" -> [ok |-> TRUE, val |-> StringV(v.v)]
      [] OTHER -> [ok |-> FALSE, val |-> Empty]

\* The match of set_state: Variant to StateValue; the unsupported kinds panic.
VariantToState(v) ==
    CASE v.t = "Nil" -> [ok |-> TRUE, val |-> Empty]
      [] v.t = "Bool" -> [ok |-> TRUE, val |-> BoolV(v.v = 1)]
      [] v.t = "I64" -> [ok |-> TRUE, val |-> IntV(v.v)]
      [] v.t = "F64" -> [ok |-> TRUE, val |-> FloatV(v.v)]
      [] v.t = "GodotString" -> [ok |-> TRUE, val |-> StringV(v.v)]
      [] v.t = "NodePath" -> [ok |-> TRUE, val |-> StringV(v.v)]
      [] OTHER -> [ok |-> FALSE, val |-> Empty]

\* The match of get_state: StateValue to Variant; a Tuple is unimplemented.
StateToVariant(sv) ==
    CASE sv.t = "Int" -> [ok |-> TRUE, val |-> [t |-> "I64", v |-> sv.v]]
      [] sv.t = "Boolean" -> [ok |-> TRUE, val |-> [t |-> "Bool", v |-> sv.v]]
      [] sv.t = "Float" -> [ok |-> TRUE, val |-> [t |-> "F64", v |-> sv.v]]
      [] sv.t = "String" -> [ok |-> TRUE, val |-> [t |-> "GodotString", v |-> sv.v]]
      [] sv.t = "Empty" -> [ok |-> TRUE, val |-> Nil]
      [] OTHER -> [ok |-> FALSE, val |-> Nil]

Signal(sig, id, line, array) == [sig |-> sig, id |-> id, line |-> line, array |-> array]
LineEvent(f, id) == Signal("line", id, Models(f)[id].text, <<>>)
ModelEvent(f, id) == Signal("model", id, "", <<>>)
StoppedEvent == Signal("stopped", "", "", <<>>)

\* Mutant of ChoiceEntry: the label is the text, whatever the menu text.
ChoiceEntry_TextOnly(f, id) == [label |-> Models(f)[id].text, id |-> id]

\* The dictionary pushed for a DialogueFragment of a choice list.
ChoiceEntry(f, id) ==
    [label |-> IF Models(f)[id].menu_text = "" THEN Models(f)[id].text
               ELSE Models(f)[id].menu_text,
     id |-> id]

IsFragment(f, id) == Models(f)[id].kind = "DialogueFragment"

\* Mutant of ChoiceSignals: a model that is no fragment is passed over.
RECURSIVE ChoiceSignals_DropOthers(_, _, _)
ChoiceSignals_DropOthers(f, choices, array) ==
    IF choices = <<>> THEN <<Signal("choices", "", "", array)>>
    ELSE IF IsFragment(f, Head(choices))
         THEN ChoiceSignals_DropOthers(f, Tail(choices),
                                       Append(array, ChoiceEntry(f, Head(choices))))
         ELSE ChoiceSignals_DropOthers(f, Tail(choices), array)

\* Mutant of ChoiceSignals: every model goes to the array.
RECURSIVE ChoiceSignals_ArrayAll(_, _, _)
ChoiceSignals_ArrayAll(f, choices, array) ==
    IF choices = <<>> THEN <<Signal("choices", "", "", array)>>
    ELSE ChoiceSignals_ArrayAll(f, Tail(choices),
                                Append(array, ChoiceEntry(f, Head(choices))))

\* The loop of the WaitingForChoice arm: fragments go to the array, every
\* other model is emitted at once; the array is emitted last.
RECURSIVE ChoiceSignals(_, _, _)
ChoiceSignals(f, choices, array) ==
    IF choices = <<>> THEN <<Signal("choices", "", "", array)>>
    ELSE IF IsFragment(f, Head(choices))
         THEN ChoiceSignals(f, Tail(choices), Append(array, ChoiceEntry(f, Head(choices))))
         ELSE <<ModelEvent(f, Head(choices))>> \o ChoiceSignals(f, Tail(choices), array)

\* Mutant of handle_outcome: the terminal arm emits nothing.
handle_outcome_SilentStop(f, r) ==
    CASE r.out = "Advanced" /\ IsFragment(f, r.model) -> <<LineEvent(f, r.model)>>
      [] r.out = "Advanced" /\ ~IsFragment(f, r.model) -> <<ModelEvent(f, r.model)>>
      [] r.out = "WaitingForChoice" -> ChoiceSignals(f, r.choices, <<>>)
      [] OTHER -> <<>>

\* handle_outcome: the signals emitted for an Outcome.
handle_outcome(f, r) ==
    CASE r.out = "Advanced" /\ IsFragment(f, r.model) -> <<LineEvent(f, r.model)>>
      [] r.out = "Advanced" /\ ~IsFragment(f, r.model) -> <<ModelEvent(f, r.model)>>
      [] r.out = "WaitingForChoice" -> ChoiceSignals(f, r.choices, <<>>)
      [] OTHER -> <<StoppedEvent>>

\* What a method of the binding leaves behind.
Call(it, res, e, evs, rv) == [it |-> it, result |-> res, error |-> e, events |-> evs, ret |-> rv]
Panic(it, e) == Call(it, "panic", e, <<>>, Nil)

\* Mutant of Started: every starting model is emitted as a model event.
Started_AlwaysModel(f, r) ==
    IF r.err /= "" THEN Panic(r.it, r.err)
    ELSE IF r.it.cursor = NoCursor THEN Panic(r.it, "NotStarted")
    ELSE Call(r.it, "ok", "", <<ModelEvent(f, r.it.cursor)>>, Nil)

\* Interpreter::start, after the crate's start gave r.
Started(f, r) ==
    IF r.err /= "" THEN Panic(r.it, r.err)
    ELSE IF r.it.cursor = NoCursor THEN Panic(r.it, "NotStarted")
    ELSE Call(r.it, "ok", "",
              IF IsFragment(f, r.it.cursor) THEN <<LineEvent(f, r.it.cursor)>>
              ELSE <<ModelEvent(f, r.it.cursor)>>,
              Nil)

\* Interpreter::start
start(it, id) ==
    IF it.file = 0 THEN Panic(it, "InterpreterNotSetup")
    ELSE Started(it.file, ArticyStart(it, id))

\* Mutant of Handled: an error is treated as the end of the dialogue.
Handled_ErrorAsStopped(f, r) ==
    IF r.err = "" THEN Call(r.it, "ok", "", handle_outcome(f, r), Nil)
    ELSE Call(r.it, "ok", "", <<StoppedEvent>>, Nil)

\* The match of advance and of choose on the crate's result r: an Outcome
\* goes to handle_outcome, an error to godot_error!.
Handled(f, r) ==
    IF r.err = "" THEN Call(r.it, "ok", "", handle_outcome(f, r), Nil)
    ELSE Call(r.it, "logged", r.err, <<>>, Nil)

\* Mutant of advance: the crate's error is unwrapped, as in start.
advance_Unwrap(it) ==
    IF it.file = 0 THEN Panic(it, "InterpreterNotSetup")
    ELSE IF ArticyAdvance(it).err /= "" THEN Panic(it, ArticyAdvance(it).err)
    ELSE Handled(it.file, ArticyAdvance(it))

\* Interpreter::advance
advance(it) ==
    IF it.file = 0 THEN Panic(it, "InterpreterNotSetup")
    ELSE Handled(it.file, ArticyAdvance(it))

\* Mutant of choose: the choice is made and then advanced from, so that the
\* successor of the chosen model is emitted.
choose_ThenAdvance(it, id) ==
    IF it.file = 0 THEN Panic(it, "InterpreterNotSetup")
    ELSE IF ArticyChoose(it, id).err /= "" THEN Handled(it.file, ArticyChoose(it, id))
    ELSE advance(ArticyChoose(it, id).it)

\* Interpreter::choose
choose(it, id) ==
    IF it.file = 0 THEN Panic(it, "InterpreterNotSetup")
    ELSE Handled(it.file, ArticyChoose(it, id))

\* Interpreter::exhaust_maximally, after the crate's exhaust_maximally gave
\* r: its error panics, its outcome is dropped, and advance is called.
Exhausted(r) == IF r.err /= "" THEN Panic(r.it, r.err) ELSE advance(r.it)

\* Interpreter::exhaust_maximally
exhaust_maximally(it) ==
    IF it.file = 0 THEN Panic(it, "InterpreterNotSetup")
    ELSE Exhausted(ArticyExhaustMaximally(it))

\* Interpreter::set_state, with the value converted to c.
StateSet(it, k, c) ==
    IF ~c.ok THEN Panic(it, "TypeNotSupported")
    ELSE IF ArticySetState(it, k, c.val).err /= "" THEN Panic(it, "FailedToSetState")
    ELSE Call(ArticySetState(it, k, c.val).it, "ok", "", <<>>, Nil)

\* Interpreter::set_state
set_state(it, k, v) ==
    IF it.file = 0 THEN Panic(it, "InterpreterNotSetup")
    ELSE StateSet(it, k, VariantToState(v))

\* Interpreter::get_state, with the value read converted to c.
StateGot(it, c) ==
    IF ~c.ok THEN Panic(it, "Unimplemented") ELSE Call(it, "ok", "", <<>>, c.val)

\* Interpreter::get_state
get_state(it, k) ==
    IF it.file = 0 THEN Panic(it, "InterpreterNotSetup")
    ELSE StateGot(it, StateToVariant(ArticyGetState(it, k)))

\* Mutant of set_database: the Database's file is taken as it is.
set_database_NoFileCheck(it, dbfile, path) ==
    IF path /= "Database" THEN Panic(it, "NodeNotFound")
    ELSE Call(NewInterpreter(dbfile), "ok", "", <<>>, Nil)

\* Interpreter::set_database: the node at `path` must be a Database with a
\* file loaded; the interpreter is created anew over that file.
Paths == {"Database", "Missing"}
set_database(it, dbfile, path) ==
    IF path /= "Database" THEN Panic(it, "NodeNotFound")
    ELSE IF dbfile = 0 THEN Panic(it, "NoFileLoaded")
    ELSE Call(NewInterpreter(dbfile), "ok", "", <<>>, Nil)

---------------------------------------------------------------------------
(* The binding: the queries of the Database node (src/lib.rs).             *)

QNone == [t |-> "None", v |-> ""]
QModel(id) == [t |-> "Model", v |-> id]
QIds(ids) == [t |-> "Ids", v |-> ids]
Answer(res, e, rv) == [result |-> res, error |-> e, ret |-> rv]

\* find / find_map over the models in package order: the first of those
\* matching, from position i on.
RECURSIVE FindModel(_, _, _)
FindModel(order, matching, i) ==
    IF i > Len(order) THEN QNone
    ELSE IF order[i] \in matching THEN QModel(order[i])
    ELSE FindModel(order, matching, i + 1)

\* Database::get_model
get_model(dbfile, id) ==
    IF dbfile = 0 THEN Answer("ok", "", QNone)
    ELSE Answer("ok", "", FindModel(ModelOrder(dbfile), {id}, 1))

\* Database::get_model_by_external_id
get_model_by_external_id(dbfile, external_id) ==
    IF dbfile = 0 THEN Answer("ok", "", QNone)
    ELSE Answer("ok", "",
                FindModel(ModelOrder(dbfile),
                          {m \in ModelIds(dbfile) : ExternalId(dbfile, m) = external_id}, 1))

\* Database::get_entity_ids_from_folder: a model that is missing or is no
\* UserFolder panics, as does a folder without children in the hierarchy.
get_entity_ids_from_folder(dbfile, folder_id) ==
    IF get_model(dbfile, folder_id).ret.t = "None"
    THEN Answer("panic", "ModelNotFound", QNone)
    ELSE IF Models(dbfile)[folder_id].kind /= "UserFolder"
    THEN Answer("panic", "NotAFolder", QNone)
    ELSE IF HierarchyChildren(dbfile, folder_id) = <<>>
    THEN Answer("panic", "NoChildren", QNone)
    ELSE Answer("ok", "", QIds(HierarchyChildren(dbfile, folder_id)))

---------------------------------------------------------------------------
(* The state machine: one Database node and one Interpreter node.         *)

Init ==
    /\ file = 0
    /\ interpreter = NoInterpreter
    /\ op = [name |-> "new", id |-> "", key |-> "", value |-> Nil]
    /\ result = "ok"
    /\ error = ""
    /\ events = <<>>
    /\ ret = Nil
    /\ pre = NoInterpreter
    /\ other = NoInterpreter

Op(name, id, key, value) == [name |-> name, id |-> id, key |-> key, value |-> value]

\* The Interpreter node's fields after call c of method o.
Done(o, c) ==
    /\ pre' = interpreter
    /\ interpreter' = c.it
    /\ op' = o
    /\ result' = c.result
    /\ error' = c.error
    /\ events' = c.events
    /\ ret' = c.ret

\* Mutant of Load: the interpreter is moved to the file loaded.
Load_Rebinds(f) ==
    /\ file' = f
    /\ op' = Op("load", "", "", Nil)
    /\ result' = "ok"
    /\ error' = ""
    /\ events' = <<Signal("loaded", "", "", <<>>)>>
    /\ ret' = Nil
    /\ pre' = interpreter
    /\ interpreter' = [interpreter EXCEPT !.file = IF @ = 0 THEN 0 ELSE f]
    /\ UNCHANGED other

\* Database::load: parses the resource and emits "loaded".
Load(f) ==
    /\ file' = f
    /\ op' = Op("load", "", "", Nil)
    /\ result' = "ok"
    /\ error' = ""
    /\ events' = <<Signal("loaded", "", "", <<>>)>>
    /\ ret' = Nil
    /\ pre' = interpreter
    /\ UNCHANGED <<interpreter, other>>

SetDatabase(path) ==
    /\ Done(Op("set_database", path, "", Nil), set_database(interpreter, file, path))
    /\ UNCHANGED <<file, other>>

Start(id) ==
    /\ Done(Op("start", id, "", Nil), start(interpreter, id))
    /\ UNCHANGED <<file, other>>

Advance ==
    /\ Done(Op("advance", "", "", Nil), advance(interpreter))
    /\ UNCHANGED <<file, other>>

Choose(id) ==
    /\ Done(Op("choose", id, "", Nil), choose(interpreter, id))
    /\ UNCHANGED <<file, other>>

ExhaustMaximally ==
    /\ Done(Op("exhaust_maximally", "", "", Nil), exhaust_maximally(interpreter))
    /\ UNCHANGED <<file, other>>

SetState(k, v) ==
    /\ Done(Op("set_state", "", k, v), set_state(interpreter, k, v))
    /\ UNCHANGED <<file, other>>

GetState(k) ==
    /\ Done(Op("get_state", "", k, Nil), get_state(interpreter, k))
    /\ UNCHANGED <<file, other>>

Next ==
    \/ \E f \in Files : Load(f)
    \/ \E path \in Paths : SetDatabase(path)
    \/ \E id \in AllIds : Start(id)
    \/ Advance
    \/ \E id \in AllIds : Choose(id)
    \/ ExhaustMaximally
    \/ \E k \in Keys, v \in Variants : SetState(k, v)
    \/ \E k \in Keys : GetState(k)

Spec == Init /\ [][Next]_vars

\* The second Interpreter node's fields after call c of method o.
Done2(o, c) ==
    /\ pre' = other
    /\ other' = c.it
    /\ op' = o
    /\ result' = c.result
    /\ error' = c.error
    /\ events' = c.events
    /\ ret' = c.ret

SetDatabase2(path) ==
    /\ Done2(Op("other.set_database", path, "", Nil), set_database(other, file, path))
    /\ UNCHANGED <<file, interpreter>>

\* Mutant of SetState2: the two nodes write to one state map.
SetState2_Shared(k, v) ==
    /\ pre' = other
    /\ other' = set_state(other, k, v).it
    /\ interpreter' = [interpreter EXCEPT !.state = set_state(other, k, v).it.state]
    /\ op' = Op("other.set_state", "", k, v)
    /\ result' = set_state(other, k, v).result
    /\ error' = set_state(other, k, v).error
    /\ events' = <<>>
    /\ ret' = Nil
    /\ UNCHANGED file

SetState2(k, v) ==
    /\ Done2(Op("other.set_state", "", k, v), set_state(other, k, v))
    /\ UNCHANGED <<file, interpreter>>

GetState2(k) ==
    /\ Done2(Op("other.get_state", "", k, Nil), get_state(other, k))
    /\ UNCHANGED <<file, interpreter>>

\* Two Interpreter nodes over one Database: the first walks file 1 and
\* writes its state map, the second is bound, written and read.
TwoIds == {"D", "I1"}
TwoValues == {Nil, [t |-> "I64", v |-> 1]}
NextTwo ==
    \/ \E f \in Files : Load(f)
    \/ SetDatabase("Database")
    \/ \E id \in TwoIds : Start(id)
    \/ Advance
    \/ Choose("A")
    \/ ExhaustMaximally
    \/ \E v \in TwoValues : SetState("x", v)
    \/ GetState("x")
    \/ SetDatabase2("Database")
    \/ \E v \in TwoValues : SetState2("x", v)
    \/ GetState2("x")

SpecTwo == Init /\ [][NextTwo]_vars

\* A query of the Database node: nothing but the answer changes.
Queried(o, a) ==
    /\ op' = o
    /\ result' = a.result
    /\ error' = a.error
    /\ events' = <<>>
    /\ ret' = a.ret
    /\ pre' = interpreter

GetModel(id) ==
    /\ Queried(Op("get_model", id, "", Nil), get_model(file, id))
    /\ UNCHANGED <<file, interpreter, other>>

GetModelByExternalId(s) ==
    /\ Queried(Op("get_model_by_external_id", "", s, Nil),
               get_model_by_external_id(file, s))
    /\ UNCHANGED <<file, interpreter, other>>

GetEntityIdsFromFolder(id) ==
    /\ Queried(Op("get_entity_ids_from_folder", id, "", Nil),
               get_entity_ids_from_folder(file, id))
    /\ UNCHANGED <<file, interpreter, other>>

\* The Database node with its queries, and an Interpreter node bound to it.
NextDb ==
    \/ \E f \in Files : Load(f)
    \/ \E path \in Paths : SetDatabase(path)
    \/ \E id \in AllIds : Start(id)
    \/ Advance
    \/ \E id \in AllIds : GetModel(id)
    \/ \E s \in ExternalIds : GetModelByExternalId(s)
    \/ \E id \in AllIds : GetEntityIdsFromFolder(id)

SpecDb == Init /\ [][NextDb]_vars

\* The state map on its own: set_state with every kind of Variant.
NextState ==
    \/ \E f \in Files : Load(f)
    \/ \E path \in Paths : SetDatabase(path)
    \/ \E k \in Keys, v \in AllVariants : SetState(k, v)
    \/ \E k \in Keys : GetState(k)

SpecState == Init /\ [][NextState]_vars

---------------------------------------------------------------------------
(* What the last call did, read from the variables.                        *)

SetUp == pre.file /= 0
Called(name) == op.name = name /\ SetUp
Walks == Called("advance") \/ Called("exhaust_maximally")

Range(s) == {s[i] : i \in 1..Len(s)}
Last(s) == s[Len(s)]
Sigs == {events[i].sig : i \in 1..Len(events)}

\* The last call ended with a WaitingForChoice outcome.
GaveChoices == result = "ok" /\ events /= <<>> /\ Last(events).sig = "choices"
\* The ids that outcome offered: the model events and the entries of the array.
Offered ==
    {events[i].id : i \in {j \in 1..Len(events) : events[j].sig = "model"}}
    \cup {Last(events).array[i].id : i \in 1..Len(Last(events).array)}
\* The last call ended with a terminal outcome.
GaveStopped == result = "ok" /\ events = <<StoppedEvent>>
\* choose was accepted.
Accepted == Called("choose") /\ result = "ok"

KindOf(f, id) == Models(f)[id].kind
Silent == {"Condition", "Instruction", "Jump"}

---------------------------------------------------------------------------
(* Claims.                                                                 *)

\* C1: after an outcome WaitingForChoice(cs) pending_choices holds exactly
\* the ids of cs; it stays as it is until a choose is accepted, a start
\* succeeds or the interpreter is created anew (an advance or an
\* exhaust_maximally changes it only when none is pending); choose(id) is
\* accepted iff id is pending, fails with InvalidChoice otherwise, and an accepted choose
\* leaves no choice pending.
C1_ChoiceAtomicity ==
    /\ (Called("advance") /\ GaveChoices) =>
          /\ interpreter.pending /= <<>>
          /\ Range(interpreter.pending) = Offered
    /\ Called("choose") =>
          /\ Accepted <=> InSeq(op.id, pre.pending)
          /\ ~Accepted => result = "logged" /\ error = "InvalidChoice"
                          /\ events = <<>> /\ interpreter = pre
          /\ Accepted => interpreter.pending = <<>>
    /\ interpreter.pending /= pre.pending =>
          \/ Accepted
          \/ op.name = "start" /\ result = "ok"
          \/ op.name = "set_database" /\ result = "ok"
          \/ Called("advance") /\ GaveChoices /\ pre.pending = <<>>
          \/ Called("exhaust_maximally") /\ pre.pending = <<>>

\* A second choose of another member of the same choice list was rejected.
C1_Witness ==
    /\ Called("choose") /\ ~Accepted
    /\ pre.pending = <<>> /\ pre.cursor = "A" /\ op.id = "B"

\* C2: advance fails with AwaitingChoice while a choice is pending and with
\* NotStarted when no start has set a cursor; it emits nothing then.
C2_AdvanceGuards ==
    Called("advance") =>
        /\ pre.pending /= <<>> =>
              result = "logged" /\ error = "AwaitingChoice" /\ events = <<>>
        /\ (pre.pending = <<>> /\ pre.cursor = NoCursor) =>
              result = "logged" /\ error = "NotStarted" /\ events = <<>>
        /\ result = "logged" => interpreter.pending = pre.pending

C2_Witness ==
    Called("advance") /\ pre.pending /= <<>> /\ error = "AwaitingChoice"

\* C3: once an advance has given a terminal outcome the interpreter is
\* stopped; while it is stopped every advance gives the same terminal and
\* only the stopped signal, no call emits a line, model or choices signal,
\* and only a start (or a new interpreter) ends the stop.
C3_TerminalAbsorbing ==
    /\ (Walks /\ GaveStopped) => interpreter.stopped /= "None"
    /\ interpreter.stopped /= "None" => interpreter.pending = <<>>
    /\ (SetUp /\ pre.stopped /= "None") =>
          /\ Called("advance") => GaveStopped /\ interpreter = pre
          /\ op.name \in {"advance", "choose", "exhaust_maximally"} =>
                /\ Sigs \subseteq {"stopped"}
                /\ interpreter.stopped = pre.stopped
          /\ interpreter.stopped /= pre.stopped =>
                \/ op.name = "start" /\ result = "ok"
                \/ op.name = "set_database" /\ result = "ok"

C3_Witness ==
    Called("advance") /\ pre.stopped = "EndOfDialogue" /\ GaveStopped

\* C4: an accepted choose(id) makes id the cursor, clears pending_choices,
\* leaves the state map alone and emits exactly the chosen model: its line
\* if it is a DialogueFragment, never its successor.
C4_ChooseEmitsChosen ==
    Accepted =>
        /\ interpreter.cursor = op.id
        /\ interpreter.pending = <<>>
        /\ interpreter.state = pre.state
        /\ events = <<IF IsFragment(pre.file, op.id) THEN LineEvent(pre.file, op.id)
                      ELSE ModelEvent(pre.file, op.id)>>

\* A fragment that has a successor was chosen.
C4_Witness ==
    Accepted /\ op.id = "A" /\ events = <<LineEvent(1, "A")>>

Walked1(c) ==
    /\ Called("advance") /\ pre.file = 1 /\ pre.cursor = c
    /\ pre.pending = <<>> /\ pre.stopped = "None"

\* C6: the Instructions between the cursor and the next observable model
\* are applied once each, in path order, before that model's signal: from A,
\* K, J or I1 the walk runs x = 1; n = x; x = 2 and then n += 1, so it ends
\* with x = 2 and n = 2, and the Condition behind them reads the n just
\* written and leads to E; from I2 the one increment decides the branch.
C6_InstructionOrder ==
    /\ (\E c \in {"A", "K", "J", "I1"} : Walked1(c)) =>
          /\ result = "ok"
          /\ interpreter.state["x"] = IntV(2)
          /\ interpreter.state["n"] = IntV(2)
          /\ events = <<LineEvent(1, "E")>>
    /\ (Walked1("I2") /\ pre.state["n"].t = "Int") =>
          /\ interpreter.state["n"] = IntV((pre.state["n"].v + 1) % (MaxInt + 1))
          /\ interpreter.state["x"] = pre.state["x"]
          /\ (events = <<LineEvent(1, "E")>>) <=> (pre.state["n"] = IntV(1))

\* Starting at the first instruction with other values in the state map.
C6_Witness ==
    /\ Walked1("I1") /\ pre.state["x"] = IntV(0) /\ pre.state["n"] = IntV(0)
    /\ interpreter.state["n"] = IntV(2) /\ events = <<LineEvent(1, "E")>>

\* C7: start(id) with an id of the file, in any state of the interpreter,
\* makes id the cursor, clears pending_choices and the stop, leaves the
\* state map as it was and emits one signal: the line of a
\* DialogueFragment, the model event of any other model.
C7_StartResets ==
    (Called("start") /\ op.id \in ModelIds(pre.file)) =>
        /\ result = "ok"
        /\ interpreter.cursor = op.id
        /\ interpreter.pending = <<>>
        /\ interpreter.stopped = "None"
        /\ interpreter.state = pre.state
        /\ events = <<IF IsFragment(pre.file, op.id) THEN LineEvent(pre.file, op.id)
                      ELSE ModelEvent(pre.file, op.id)>>

\* A start on an Instruction while a choice was pending.
C7_Witness ==
    /\ Called("start") /\ op.id = "I1" /\ pre.pending /= <<>>
    /\ events = <<ModelEvent(1, "I1")>>

\* The truth of a guard in a state map, as the specification defines it.
Truthy(g, st) == g.op = "true" \/ (g.op = "eq" /\ st[g.k] = g.v)
Evaluates(outs, st) == \A i \in 1..Len(outs) : outs[i].guard.op /= "div0"
\* The targets of the connections of model id that are open in st.
OpenTargets(f, id, st) ==
    LET outs == Models(f)[id].outs
        RECURSIVE Pick(_)
        Pick(i) == IF i > Len(outs) THEN <<>>
                   ELSE IF Truthy(outs[i].guard, st) THEN <<outs[i].to>> \o Pick(i + 1)
                   ELSE Pick(i + 1)
    IN  Pick(1)

\* The walk of an advance evaluates guards in the state map of that moment:
\* a choice list holds the targets of the open connections of the cursor, in
\* authored order; a model none of whose connections is open ends the
\* dialogue; a Condition all of whose pins are closed ends it.
GuardsAtWalk ==
    /\ (Called("advance") /\ GaveChoices) =>
          interpreter.pending =
              OpenTargets(pre.file, interpreter.cursor, interpreter.state)
    /\ (Called("advance") /\ pre.pending = <<>> /\ pre.cursor /= NoCursor
        /\ pre.stopped = "None"
        /\ KindOf(pre.file, pre.cursor) \notin {"Jump", "Instruction"}
        /\ (KindOf(pre.file, pre.cursor) = "Condition" =>
               Models(pre.file)[pre.cursor].expr.op /= "div0")
        /\ Evaluates(Models(pre.file)[pre.cursor].outs, pre.state)
        /\ OpenTargets(pre.file, pre.cursor, pre.state) = <<>>) =>
          GaveStopped /\ interpreter.stopped = "EndOfDialogue"

C8_WitnessCondition ==
    Walked1("G") /\ GaveStopped /\ pre.state["n"] = IntV(2)

C10_NoPanic == result /= "panic"

\* The label a choice entry is to carry.
Label(f, id) ==
    IF Models(f)[id].menu_text /= "" THEN Models(f)[id].menu_text ELSE Models(f)[id].text

\* C11: every entry of a choices array carries the id of a fragment of the
\* pending list and, as its label, that fragment's menu_text if it is not
\* empty and its text otherwise.
C11_ChoiceLabels ==
    \A i \in 1..Len(events) :
        events[i].sig = "choices" =>
            \A j \in 1..Len(events[i].array) :
                /\ InSeq(events[i].array[j].id, interpreter.pending)
                /\ IsFragment(pre.file, events[i].array[j].id)
                /\ events[i].array[j].label = Label(pre.file, events[i].array[j].id)

\* The hub's list: A falls back to its text, B carries its menu text.
C11_Witness ==
    /\ Called("advance") /\ GaveChoices /\ Len(Last(events).array) = 2
    /\ Last(events).array[1] = [label |-> "yes", id |-> "A"]
    /\ Last(events).array[2] = [label |-> "nope", id |-> "B"]

\* C12 as stated: on a cycle of fragments with empty text exhaust_maximally
\* stops at the step bound and hands the Runaway error back to its caller.
C12_RunawayReturned ==
    (Called("exhaust_maximally") /\ pre.file = 2 /\ pre.cursor \in {"r1", "r2"}
     /\ pre.pending = <<>> /\ pre.stopped = "None") =>
        error = "Runaway" /\ result /= "panic"

\* C13 as stated: after a start on the first fragment of the chain of empty
\* fragments, exhaust_maximally emits the line of the fragment with text
\* that ends the chain, and nothing else.
C13_EmitsFirstLine ==
    (Called("exhaust_maximally") /\ pre.file = 2 /\ pre.cursor = "e1"
     /\ pre.pending = <<>> /\ pre.stopped = "None") =>
        events = <<LineEvent(2, "f")>>

\* The members of a list that are fragments / that are not, in order.
Fragments(f, ids) == SelectSeq(ids, LAMBDA id : IsFragment(f, id))
Others(f, ids) == SelectSeq(ids, LAMBDA id : ~IsFragment(f, id))

InterpreterOps ==
    {"start", "advance", "choose", "exhaust_maximally", "get_state", "set_state"}

\* C20: a call of start, advance, choose, exhaust_maximally, get_state or
\* set_state before a set_database has succeeded fails and emits nothing,
\* so that no line, model, choices or stopped signal comes before it;
\* set_database succeeds only when the Database has a file loaded, and an
\* interpreter that is set up implies a Database that has loaded.
C20_SetupOrder ==
    /\ (op.name \in InterpreterOps /\ pre.file = 0) =>
          result = "panic" /\ events = <<>> /\ interpreter = pre /\ ret = Nil
    /\ (op.name = "set_database" /\ result = "ok") =>
          file /= 0 /\ interpreter.file = file
    /\ (op.name = "set_database" /\ result /= "ok") =>
          interpreter = pre /\ events = <<>>
    /\ interpreter.file /= 0 => file /= 0
    /\ interpreter.file = 0 =>
          \A i \in 1..Len(events) : events[i].sig = "loaded"

\* set_database was called before the Database had loaded.
C20_Witness ==
    op.name = "set_database" /\ op.id = "Database" /\ file = 0 /\ result = "panic"

\* The Variants of the scalar state values, Empty (Nil) among them.
Scalars == {"Nil", "Bool", "I64", "F64", "GodotString"}

\* C14: after set_state(k, v) with a scalar v, get_state(k) returns v;
\* after set_state(k, Nil) the key holds Empty and get_state(k) returns
\* Nil; set_state(k, v) leaves every other key as it was, and get_state
\* changes nothing.
C14_StateRoundTrip ==
    /\ (Called("set_state") /\ op.value.t \in Scalars) =>
          /\ result = "ok"
          /\ get_state(interpreter, op.key).result = "ok"
          /\ get_state(interpreter, op.key).ret = op.value
          /\ op.value = Nil => interpreter.state[op.key] = Empty
    /\ (Called("set_state") /\ result = "ok") =>
          \A k \in Keys \ {op.key} : interpreter.state[k] = pre.state[k]
    /\ Called("get_state") =>
          /\ result = "ok" /\ interpreter = pre
          /\ ret = Nil <=> pre.state[op.key] = Empty

\* A Boolean was written over a key while the other key held a string.
C14_Witness ==
    /\ Called("set_state") /\ op.key = "x" /\ op.value = [t |-> "Bool", v |-> 1]
    /\ interpreter.state["x"] = BoolV(TRUE) /\ pre.state["x"] = IntV(1)
    /\ interpreter.state["n"] = StringV(1)

OtherOps == {"other.set_database", "other.set_state", "other.get_state"}

\* C15: no call of an Interpreter method changes the Database's file (what
\* its queries answer from); a call on one Interpreter node leaves the
\* other node's interpreter, state map included, as it was, and get_state
\* on a node answers from that node's own state map.
C15_DatabaseImmutable ==
    /\ [][/\ op'.name /= "load" => file' = file
          /\ op'.name \in OtherOps => interpreter' = interpreter
          /\ op'.name \notin OtherOps => other' = other]_vars
    /\ [](op.name = "other.get_state" /\ pre.file /= 0 =>
              /\ other = pre
              /\ ret = StateToVariant(other.state[op.key]).val)
    /\ [](op.name = "get_state" /\ pre.file /= 0 =>
              ret = StateToVariant(interpreter.state[op.key]).val)

\* Two interpreters over the same file, the first with x written by its
\* instructions, the second reading its own empty x.
C15_Witness ==
    /\ op.name = "other.get_state" /\ ret = Nil
    /\ interpreter.file = 1 /\ other.file = 1 /\ file = 1
    /\ interpreter.state["x"] = IntV(2) /\ other.state["x"] = Empty

\* C16 as stated: the lookup by external id gives no model for the empty
\* string, and for any other string only a model with that external id.
C16_SkipsEmptyExternalId ==
    (op.name = "get_model_by_external_id" /\ file /= 0) =>
        /\ op.key = "" => ret.t = "None"
        /\ ret.t = "Model" => ExternalId(file, ret.v) = op.key

\* C17 as stated: the folder query gives the children of a UserFolder in
\* authored order, and for a model of any other kind fails with NotAFolder
\* without panicking.
C17_NotAFolderReturned ==
    (op.name = "get_entity_ids_from_folder" /\ file /= 0 /\ op.id \in ModelIds(file)) =>
        IF KindOf(file, op.id) = "UserFolder"
        THEN result = "ok" /\ ret = QIds(HierarchyChildren(file, op.id))
        ELSE error = "NotAFolder" /\ result /= "panic"

\* C19: load changes the Database's file and nothing of an Interpreter: not
\* its cursor, pending_choices or state map, nor the file it walks; the
\* queries answer from the file loaded last, the interpreter resolves ids in
\* the file it was given by its last set_database, which is the file the
\* Database held then.
C19_LoadKeepsInterpreter ==
    /\ op.name = "load" => interpreter = pre /\ file /= 0
    /\ op.name = "get_model" =>
          /\ interpreter = pre
          /\ ret.t = "Model" <=> (file /= 0 /\ op.id \in ModelIds(file))
    /\ Called("start") => (result = "ok" <=> op.id \in ModelIds(pre.file))
    /\ (Called("start") \/ Called("advance")) => interpreter.file = pre.file
    /\ interpreter.file /= pre.file =>
          op.name = "set_database" /\ result = "ok" /\ interpreter.file = file

\* After a second load the Database answers from file 2 while the
\* interpreter, bound before, has started on a model of file 1.
C19_Witness ==
    /\ Called("start") /\ op.id = "D" /\ result = "ok"
    /\ file = 2 /\ interpreter.file = 1 /\ interpreter.cursor = "D"
    /\ get_model(file, "D").ret.t = "None" /\ get_model(file, "h").ret.t = "Model"

=============================================================================
